---- MODULE Spec2Model ----
(***************************************************************************)
(* SolidWrap: a wrapper around the SolidWorks application session and the  *)
(* PDM vault session.  The state is the two singleton sessions, the        *)
(* document handles they created, the destination folders on disk, the     *)
(* vault's view of every file, and a record of the last operation with the *)
(* external calls it issued.                                               *)
(*                                                                         *)
(* Strings are sequences of tokens: extension letters are single           *)
(* characters, so that str.upper and str.replace act on them one by one.   *)
(***************************************************************************)
EXTENDS Integers, Sequences, FiniteSets, TLC

VARIABLES
    export_matrix,  \* module-level dict export_matrix
    sw_client,      \* SolidWorks.client
    documents,      \* SWDocument handles of the documents open in the application
    folders,        \* directories that exist on disk
    vault_client,   \* Vault.client
    authorized,     \* Vault().authorized
    logged_in,      \* the vault's own IsLoggedIn
    locked,         \* per vault file: IsLocked / LockedByUser
    wfstate,        \* per vault file: CurrentState
    last,           \* the last operation: arguments, external calls, outcome, log
    hist,           \* summaries of the latest uninterrupted lock operations
    observe,        \* what is recorded: "off", "last" (last only) or "hist"
    sw_instance,    \* wrapper.instance of SolidWorks: <<>> (None) or <<instance>>
    vault_instance, \* wrapper.instance of Vault: <<>> (None) or <<instance>>
    pc,             \* where an example routine stands: <<label, file index>>
    trace           \* what the example routine has called so far

appvars   == <<sw_client, documents, folders>>
vaultvars == <<vault_client, authorized, logged_in, locked, wfstate>>
\* module-level objects no method assigns: the table and the stored singletons
modvars   == <<export_matrix, sw_instance, vault_instance>>
routinevars == <<pc, trace>>
vars      == <<export_matrix, sw_client, documents, folders, vault_client,
               authorized, logged_in, locked, wfstate, last, hist, observe,
               sw_instance, vault_instance, pc, trace>>

----------------------------------------------------------------------------
(* Bounds *)

MaxOpen == 1

----------------------------------------------------------------------------
(* Strings *)

SEP == "\\"
DOT == "."

UpperChar(c) ==
    CASE c = "s" -> "S" [] c = "l" -> "L" [] c = "d" -> "D" [] c = "p" -> "P"
      [] c = "r" -> "R" [] c = "t" -> "T" [] c = "a" -> "A" [] c = "m" -> "M"
      [] c = "w" -> "W" [] c = "x" -> "X" [] OTHER -> c

Upper(s) == [i \in 1..Len(s) |-> UpperChar(s[i])]

RemoveAll(s, t) == SelectSeq(s, LAMBDA x : x # t)

LastIndexOf(s, t) ==
    LET I == {i \in 1..Len(s) : s[i] = t}
    IN  IF I = {} THEN 0 ELSE CHOOSE i \in I : \A j \in I : j <= i

FirstIndexOf(s, t) ==
    LET I == {i \in 1..Len(s) : s[i] = t}
    IN  IF I = {} THEN 0 ELSE CHOOSE i \in I : \A j \in I : i <= j

Filepath(complete) ==
    LET i    == LastIndexOf(complete, SEP)
        name == SubSeq(complete, i + 1, Len(complete))
        j    == LastIndexOf(name, DOT)
    IN  [complete  |-> complete,
         directory |-> SubSeq(complete, 1, i - 1),
         name      |-> name,
         root      |-> IF j > 1 THEN SubSeq(name, 1, j - 1) ELSE name,
         extension |-> IF j > 1 THEN SubSeq(name, j, Len(name)) ELSE <<>>]

----------------------------------------------------------------------------
(* containers.py *)

NONE == "None"

SWDocTypeMembers == <<"PART", "ASSEMBLY", "DRAWING">>

SWDocTypeValue(t) ==
    CASE t = "PART"     -> <<"S", "L", "D", "P", "R", "T">>
      [] t = "ASSEMBLY" -> <<"S", "L", "D", "A", "S", "M">>
      [] t = "DRAWING"  -> <<"S", "L", "D", "D", "R", "W">>

SWExportFormatMembers == {"DXF", "IMAGE", "PARASOLID", "PDF", "STEP", "STL"}

SWExportFormatValue(f) ==
    CASE f = "DXF"       -> <<"dxf">>
      [] f = "IMAGE"     -> <<"png">>
      [] f = "PARASOLID" -> <<"x_t">>
      [] f = "PDF"       -> <<"pdf">>
      [] f = "STEP"      -> <<"step">>
      [] f = "STL"       -> <<"stl">>

format_doctype(filepath) ==
    LET extension == RemoveAll(filepath.extension, DOT)
        hits == {i \in 1..Len(SWDocTypeMembers) :
                    SWDocTypeValue(SWDocTypeMembers[i]) = extension}
    IN  IF hits = {} THEN NONE
        ELSE SWDocTypeMembers[CHOOSE i \in hits : \A j \in hits : i <= j]

SWDocument(swobj) ==
    LET source == Filepath(swobj)
    IN  [swobj |-> swobj, source |-> source, doctype |-> format_doctype(source)]

----------------------------------------------------------------------------
(* utilities.py *)

AUTOMATION_MESSAGE == <<"automated action using SolidWrap">>
EXPORT_FOLDER_DEFAULT == <<"SolidWrap Exports">>
SUBPROCESS_NAME == <<"Taskkill /IM SLDWORKS.exe /F">>
VAULT_DISPATCH_KEY == <<"ConisioLib.EdmVault">>

DigitChar(d) ==
    CASE d = 0 -> "0" [] d = 1 -> "1" [] d = 2 -> "2" [] d = 3 -> "3" [] d = 4 -> "4"
      [] d = 5 -> "5" [] d = 6 -> "6" [] d = 7 -> "7" [] d = 8 -> "8" [] d = 9 -> "9"

RECURSIVE Decimal(_)
Decimal(n) ==
    IF n < 10 THEN <<DigitChar(n)>>
    ELSE Append(Decimal(n \div 10), DigitChar(n % 10))

compute_client_key(version) ==
    <<"SldWorks.Application.">> \o Decimal(version - 1992)

----------------------------------------------------------------------------
(* logger.py, and the trace of one operation *)

\* The steps of an operation are its log calls and its external calls, in
\* program order.  A log step keeps the level in api and the message in s1.
Call(api, s1, s2, n) == [kind |-> "call", api |-> api, s1 |-> s1, s2 |-> s2, n |-> n]
Log(level, msg)      == [kind |-> "log", api |-> level, s1 |-> <<msg>>, s2 |-> <<>>, n |-> 0]

\* log.setLevel(logging.INFO): DEBUG records are dropped.
Emitted(step) == step.kind = "log" => step.api # "DEBUG"

IsCall(step) == step.kind = "call"

NCalls(plan) == Len(SelectSeq(plan, IsCall))

\* The index in plan of its k-th external call.
RECURSIVE CallIndex(_, _, _)
CallIndex(plan, k, i) ==
    IF i > Len(plan) THEN Len(plan)
    ELSE IF IsCall(plan[i])
         THEN (IF k = 1 THEN i ELSE CallIndex(plan, k - 1, i + 1))
         ELSE CallIndex(plan, k, i + 1)

\* What an operation did when its k-th external call raised (k = 0: none did).
Ran(plan, k) ==
    SelectSeq(IF k = 0 THEN plan ELSE SubSeq(plan, 1, CallIndex(plan, k, 1)), Emitted)

\* The exception the failing external call raises.
ExcOf(step) == IF step.api = "makedirs" THEN "OSError" ELSE "com_error"

Raised(plan, k, atEnd) ==
    IF k = 0 THEN atEnd ELSE ExcOf(plan[CallIndex(plan, k, 1)])

\* Whether the external call with this api was issued and returned.
Returned(plan, k, api) ==
    \E i \in 1..Len(plan) :
        /\ IsCall(plan[i]) /\ plan[i].api = api
        /\ (k = 0 \/ i < CallIndex(plan, k, 1))

\* rkind tells what ret is: "none" (nothing is returned), "value" (None, True,
\* False or a string), "list" or "doc" (a handle, ret its doctype).
\* comment is an Optional[str] argument, pre the file's lock and workflow state
\* when the operation began.
OpRecord(op, file, arg, arg2, steps, raised, rkind, ret) ==
    [op |-> op, file |-> file, arg |-> arg, arg2 |-> arg2, comment |-> <<>>,
     pre |-> <<>>, steps |-> steps, raised |-> raised, rkind |-> rkind, ret |-> ret]

NoOp == OpRecord("", <<>>, <<>>, <<>>, <<>>, "none", "none", <<>>)

Calls(rec) == SelectSeq(rec.steps, IsCall)
Logs(rec)  == SelectSeq(rec.steps, LAMBDA s : s.kind = "log")

CallsTo(rec, api) == SelectSeq(rec.steps, LAMBDA s : IsCall(s) /\ s.api = api)

\* The record of an operation that is no lock operation.
Record(rec) ==
    /\ last' = IF observe = "off" THEN NoOp ELSE rec
    /\ hist' = <<>>
    /\ UNCHANGED observe

\* The record of a lock operation on a file found in lock state pre and left
\* in post: hist keeps the three latest of an uninterrupted run.
LockSummary(rec, pre, post) ==
    [op |-> rec.op, file |-> rec.file, pre |-> pre, post |-> post,
     raised |-> rec.raised,
     requests |-> SelectSeq(rec.steps, LAMBDA s : IsCall(s) /\
                    s.api \in {"LockFile", "UnlockFile", "UndoLockFile"}),
     notes |-> SelectSeq(rec.steps, LAMBDA s : s.kind = "log" /\
                    s.s1 \in {<<"file is already checked out">>,
                              <<"file is already checked in">>,
                              <<"file is not checked out">>})]

RecordLock(rec, pre, post) ==
    /\ last' = IF observe = "off" THEN NoOp ELSE rec
    /\ hist' = IF observe = "hist"
               THEN LET h == Append(hist, LockSummary(rec, pre, post))
                    IN  IF Len(h) > 3 THEN Tail(h) ELSE h
               ELSE <<>>
    /\ UNCHANGED observe

----------------------------------------------------------------------------
(* solidwrap.py: the export compatibility table and prepare_export *)

ExportMatrix_DrawingStl ==
    [PART     |-> <<"IMAGE", "PARASOLID", "STEP", "STL">>,
     ASSEMBLY |-> <<"IMAGE", "PARASOLID", "STEP", "STL">>,
     DRAWING  |-> <<"DXF", "PDF", "STL">>]

ExportMatrix ==
    [PART     |-> <<"IMAGE", "PARASOLID", "STEP", "STL">>,
     ASSEMBLY |-> <<"IMAGE", "PARASOLID", "STEP", "STL">>,
     DRAWING  |-> <<"DXF", "PDF">>]

Range(seq) == {seq[i] : i \in 1..Len(seq)}

\* os.path.join(os.environ['USERPROFILE'], 'Desktop')
Desktop == <<"C:", SEP, "Users", SEP, "me", SEP, "Desktop">>

\* Filepath(desktop + '\\' + EXPORT_FOLDER_DEFAULT)
DefaultDestination == Filepath(Desktop \o <<SEP>> \o EXPORT_FOLDER_DEFAULT)

\* "if not destination": no destination is the empty path.
Destination(destination) ==
    IF destination = <<>> THEN DefaultDestination ELSE Filepath(destination)

OutputPath_name(document, target_format, destination) ==
    Filepath(Destination(destination).complete \o <<SEP>> \o document.source.name
             \o <<DOT>> \o SWExportFormatValue(target_format))

\* Filepath(fr"{destination.complete}\{root}.{extension}")
OutputPath(document, target_format, destination) ==
    Filepath(Destination(destination).complete \o <<SEP>> \o document.source.root
             \o <<DOT>> \o SWExportFormatValue(target_format))

\* What prepare_export does: "KeyError" (no entry for the doctype), "None"
\* (incompatible format) or "ok", and the steps up to there.
prepare_export_result(document, target_format) ==
    IF document.doctype \notin DOMAIN export_matrix THEN "KeyError"
    ELSE IF target_format \notin Range(export_matrix[document.doctype]) THEN "None"
    ELSE "ok"

prepare_export_steps(document, target_format, destination) ==
    <<Log("DEBUG", "preparing document for export")>> \o
    (CASE prepare_export_result(document, target_format) = "KeyError" -> <<>>
       [] prepare_export_result(document, target_format) = "None" ->
            <<Log("WARNING", "cannot export document"),
              Log("WARNING", "incompatible format")>>
       [] OTHER ->
            (IF destination = <<>>
             THEN <<Log("DEBUG", "no destination specified, using default")>>
             ELSE <<>>) \o
            (IF Destination(destination).complete \notin folders
             THEN <<Log("DEBUG", "destination does not exist, creating new folder"),
                    Call("makedirs", Destination(destination).complete, <<>>, 0)>>
             ELSE <<>>))

\* The object cls(*args) makes: objects are told apart by id, the number of
\* the construction of their class that made them.
NextId(instance) == IF instance = <<>> THEN 1 ELSE instance[1].id + 1

singleton_renew(instance, made) == <<made>>

\* wrapper(*args): "if not wrapper.instance: wrapper.instance = cls(*args)",
\* then "return wrapper.instance".
singleton(instance, made) == IF instance = <<>> THEN <<made>> ELSE instance

----------------------------------------------------------------------------
(* solidwrap.py: class SolidWorks *)

SWVersion == 2023

\* SolidWorks(version): __init__ runs only for the instance the wrapper makes.
NewSolidWorks(version) ==
    LET returned == singleton(sw_instance,
                              [id |-> NextId(sw_instance), version |-> version])
    IN  /\ sw_instance' = returned
        /\ Record([OpRecord("SolidWorks", <<>>, <<version>>, <<>>, <<>>, "none",
                            "value", returned)
                        EXCEPT !.pre = sw_instance])
        /\ UNCHANGED <<export_matrix, vault_instance, appvars, vaultvars>>

Bool(b) == IF b THEN 1 ELSE 0

\* str(True), str(False)
PyBool(b) == IF b THEN "True" ELSE "False"

connect_plan(headless, dispatched) ==
    <<Log("CRITICAL", "connecting to SolidWorks client"),
      Log("INFO", "establishing connection..."),
      Call("CoInitialize", <<>>, <<>>, 0),
      Call("Dispatch", compute_client_key(sw_instance[1].version), <<>>, 0)>> \o
    (IF dispatched
     THEN <<Call("put", <<"visible">>, <<>>, Bool(~headless)),
            Call("put", <<"UserControlBackground">>, <<>>, Bool(headless)),
            Call("put", <<"Frame.KeepInvisible">>, <<>>, Bool(headless)),
            Log("INFO", "connection successfully established")>>
     ELSE <<>>)

\* connect(headless): dispatched is whether win.Dispatch yields an object.
Connect(headless, dispatched, k) ==
    LET plan == connect_plan(headless, dispatched)
        caught == IF k = 0 THEN <<>>
                  ELSE <<Log("ERROR", "failed to establish connection"),
                         Log("ERROR", "exception")>>
        ret == IF k > 0 THEN <<"False">> ELSE IF dispatched THEN <<"True">> ELSE <<NONE>>
    IN  /\ k \in 0..NCalls(plan)
        /\ sw_client' = IF dispatched /\ Returned(plan, k, "Dispatch")
                        THEN "com" ELSE sw_client
        /\ Record([OpRecord("connect", <<>>, <<PyBool(headless)>>, <<>>,
                            Ran(plan, k) \o caught, "none", "value", ret)
                        EXCEPT !.pre = <<sw_client>>])
        /\ UNCHANGED <<modvars, documents, folders, vaultvars>>

disconnect_plan_kill(silent) ==
    <<Log("CRITICAL", "disconnecting from SolidWorks client"),
      Log("INFO", "terminating subprocess"),
      Call("subprocess.call", SUBPROCESS_NAME, <<>>, 0),
      Call("CoUninitialize", <<>>, <<>>, 0),
      Log("INFO", "connection successfully terminated")>>

disconnect_plan(silent) ==
    <<Log("CRITICAL", "disconnecting from SolidWorks client")>> \o
    (IF ~silent
     THEN <<Log("INFO", "terminating subprocess"),
            Call("subprocess.call", SUBPROCESS_NAME, <<>>, 0)>>
     ELSE <<>>) \o
    <<Call("CoUninitialize", <<>>, <<>>, 0),
      Log("INFO", "connection successfully terminated")>>

Disconnect(silent, k) ==
    LET plan == disconnect_plan(silent)
        caught == IF k = 0 THEN <<>>
                  ELSE <<Log("ERROR", "failed to disconnect from SolidWorks client"),
                         Log("ERROR", "exception")>>
    IN  /\ k \in 0..NCalls(plan)
        /\ sw_client' = IF k = 0 THEN NONE ELSE sw_client
        \* a killed application holds no open document
        /\ documents' = IF Returned(plan, k, "subprocess.call") THEN {} ELSE documents
        /\ Record([OpRecord("disconnect", <<>>, <<PyBool(silent)>>, <<>>,
                            Ran(plan, k) \o caught, "none", "value", <<PyBool(k = 0)>>)
                        EXCEPT !.pre = <<sw_client>>])
        /\ UNCHANGED <<modvars, folders, vaultvars>>

\* The match statement of open: the doc_type code passed to OpenDoc6.
type_key(filepath) ==
    LET key == Upper(RemoveAll(filepath.extension, DOT))
    IN  CASE key = SWDocTypeValue("PART")     -> 1
          [] key = SWDocTypeValue("ASSEMBLY") -> 2
          [] key = SWDocTypeValue("DRAWING")  -> 3
          [] OTHER -> 0

open_plan(filepath) ==
    <<Log("INFO", "opening document")>> \o
    (IF sw_client = NONE THEN <<>>
     ELSE <<Call("OpenDoc6", filepath.complete, <<>>, type_key(filepath))>>)

\* open(filepath): the application raises, returns no object, or returns the
\* document, whose GetPathName is the path it was opened from.
Open(filepath, result) ==
    LET plan == open_plan(filepath)
        k == IF result = "raise" THEN 1 ELSE 0
        atEnd == IF sw_client = NONE \/ result = "null" THEN "AttributeError" ELSE "none"
        raised == Raised(plan, k, atEnd)
        document == SWDocument(filepath.complete)
    IN  /\ result \in {"raise", "null", "doc"}
        /\ sw_client = NONE => result = "null"
        /\ raised = "none" /\ document \notin documents => Cardinality(documents) < MaxOpen
        /\ documents' = IF raised = "none" THEN documents \cup {document} ELSE documents
        /\ Record(OpRecord("open", filepath.complete, <<>>, <<>>, Ran(plan, k), raised,
                           IF raised = "none" THEN "doc" ELSE "none",
                           IF raised = "none" THEN <<document.doctype>> ELSE <<>>))
        /\ UNCHANGED <<modvars, sw_client, folders, vaultvars>>

close_plan_saving(document) ==
    <<Log("INFO", "closing document"), Call("Save3", <<>>, <<>>, 1)>> \o
    (IF sw_client = NONE THEN <<>>
     ELSE <<Call("CloseDoc", document.source.complete, <<>>, 0)>>)

close_plan(document) ==
    <<Log("INFO", "closing document")>> \o
    (IF sw_client = NONE THEN <<>>
     ELSE <<Call("CloseDoc", document.source.complete, <<>>, 0)>>)

Close(document, k) ==
    LET plan == close_plan(document)
        raised == Raised(plan, k, IF sw_client = NONE THEN "AttributeError" ELSE "none")
    IN  /\ document \in documents
        /\ k \in 0..NCalls(plan)
        /\ documents' = IF raised = "none" THEN documents \ {document} ELSE documents
        /\ Record(OpRecord("close", document.source.complete, <<>>, <<>>, Ran(plan, k),
                           raised, "none", <<>>))
        /\ UNCHANGED <<modvars, sw_client, folders, vaultvars>>

\* save(document): Save3 is a call on the document object, not on the client.
save_steps(document) ==
    <<Log("INFO", "saving document"), Call("Save3", <<>>, <<>>, 1)>>

Save(document, k) ==
    LET plan == save_steps(document)
    IN  /\ document \in documents
        /\ k \in 0..NCalls(plan)
        /\ Record(OpRecord("save", document.source.complete, <<>>, <<>>, Ran(plan, k),
                           Raised(plan, k, "none"), "none", <<>>))
        /\ UNCHANGED <<modvars, appvars, vaultvars>>

\* rebuild(document, top_only): ForceRebuild3(top_only) on the document object.
rebuild_steps(document, top_only) ==
    <<Log("INFO", "rebuilding document"),
      Call("ForceRebuild3", <<>>, <<>>, Bool(top_only))>>

Rebuild(document, top_only, k) ==
    LET plan == rebuild_steps(document, top_only)
    IN  /\ document \in documents
        /\ k \in 0..NCalls(plan)
        /\ Record(OpRecord("rebuild", document.source.complete, <<PyBool(top_only)>>,
                           <<>>, Ran(plan, k), Raised(plan, k, "none"), "none", <<>>))
        /\ UNCHANGED <<modvars, appvars, vaultvars>>

safeclose_plan_save_first(document) ==
    save_steps(document) \o rebuild_steps(document, FALSE) \o close_plan(document)

\* self.rebuild(document, False); self.save(document); self.close(document)
safeclose_plan(document) ==
    rebuild_steps(document, FALSE) \o save_steps(document) \o close_plan(document)

safeclose_raised_swallowed(plan, k) ==
    IF k > 0 /\ plan[CallIndex(plan, k, 1)].api \in {"ForceRebuild3", "Save3"}
    THEN "none"
    ELSE Raised(plan, k, IF sw_client = NONE THEN "AttributeError" ELSE "none")

\* safeclose has no try: what a step raises leaves safeclose at once.
safeclose_raised(plan, k) ==
    Raised(plan, k, IF sw_client = NONE THEN "AttributeError" ELSE "none")

SafeClose(document, k) ==
    LET plan == safeclose_plan(document)
    IN  /\ document \in documents
        /\ k \in 0..NCalls(plan)
        /\ documents' = IF Returned(plan, k, "CloseDoc")
                        THEN documents \ {document} ELSE documents
        /\ Record(OpRecord("safeclose", document.source.complete, <<>>, <<>>,
                           Ran(plan, k), safeclose_raised(plan, k), "none", <<>>))
        /\ UNCHANGED <<modvars, sw_client, folders, vaultvars>>

stage_steps_drawings(document) ==
    <<Log("INFO", "staging document"),
      Call("SetUserPreferenceToggle", <<>>, <<>>, 198),
      Call("ShowNamedView2", <<"Isometric">>, <<>>, 7),
      Call("ViewZoomtofit2", <<>>, <<>>, 0),
      Call("InsertScene", <<SEP, "scenes", SEP, "01 basic scenes", SEP,
                            "11 white kitchen.p2s">>, <<>>, 0)>>

stage_steps(document) ==
    <<Log("INFO", "staging document")>> \o
    (IF document.doctype = "DRAWING" THEN <<>>
     ELSE <<Call("SetUserPreferenceToggle", <<>>, <<>>, 198),
            Call("ShowNamedView2", <<"Isometric">>, <<>>, 7),
            Call("ViewZoomtofit2", <<>>, <<>>, 0),
            Call("InsertScene", <<SEP, "scenes", SEP, "01 basic scenes", SEP,
                                  "11 white kitchen.p2s">>, <<>>, 0)>>)

Stage(document, k) ==
    LET plan == stage_steps(document)
    IN  /\ document \in documents
        /\ k \in 0..NCalls(plan)
        /\ Record(OpRecord("stage", document.source.complete, <<>>, <<>>, Ran(plan, k),
                           Raised(plan, k, "none"), "none", <<>>))
        /\ UNCHANGED <<modvars, appvars, vaultvars>>

export_plan(document, as_type, destination) ==
    LET prepared == prepare_export_result(document, as_type)
    IN  prepare_export_steps(document, as_type, destination) \o
        (IF prepared = "KeyError" THEN <<>>
         ELSE stage_steps(document) \o
              (IF prepared = "None" THEN <<>>
               ELSE <<Log("INFO", "exporting document"),
                      Call("SaveAs2",
                           OutputPath(document, as_type, destination).complete,
                           <<>>, 0)>>))

\* The exception export itself ends in when no external call raises: the
\* KeyError of prepare_export, or output.name on the None it returned.
export_end(document, as_type) ==
    CASE prepare_export_result(document, as_type) = "KeyError" -> "KeyError"
      [] prepare_export_result(document, as_type) = "None" -> "AttributeError"
      [] OTHER -> "none"

Export(document, as_type, destination, k) ==
    LET plan == export_plan(document, as_type, destination)
    IN  /\ document \in documents
        /\ k \in 0..NCalls(plan)
        /\ folders' = IF Returned(plan, k, "makedirs")
                      THEN folders \cup {Destination(destination).complete}
                      ELSE folders
        /\ Record(OpRecord("export", document.source.complete, <<as_type>>, destination,
                           Ran(plan, k), Raised(plan, k, export_end(document, as_type)),
                           "none", <<>>))
        /\ UNCHANGED <<modvars, sw_client, documents, vaultvars>>

\* The Feature Tree as the application reports it: first is the node
\* GetFirstChild gives and next[n] the node GetNext of node n gives, 0 for None.
\* The feature of node n (its Object) is named by FeatureName(n).
FeatureName(node) == <<"Feature", DigitChar(node)>>

\* get_last_feature up to its loop: manager, tree, count and the first child.
last_feature_head ==
    <<Call("FeatureManager", <<>>, <<>>, 0),
      Call("GetFeatureTreeRootItem2", <<>>, <<>>, 0),
      Call("GetFeatureCount", <<>>, <<>>, 1),
      Call("GetFirstChild", <<>>, <<>>, 0)>>

\* "for feature in range(count)" binds the name feature to the integers
\* 0 .. count - 1, so the loop body reads GetNext of an int: with count >= 1
\* the first pass raises an AttributeError before any node is asked for its
\* successor.  With count = 0 the loop is skipped and feature is the first
\* child, whose Object is returned (an AttributeError when there is none).
last_feature_steps(first, next, count) ==
    last_feature_head \o
    (IF count = 0 /\ first # 0 THEN <<Call("Object", FeatureName(first), <<>>, 0)>>
     ELSE <<>>)

last_feature_end(first, next, count) ==
    IF count = 0 /\ first # 0 THEN "none" ELSE "AttributeError"

\* The node whose feature get_last_feature returns when it returns.
last_feature_node(first, next, count) == first

GetLastFeature(document, first, next, count, k) ==
    LET plan == last_feature_steps(first, next, count)
        raised == Raised(plan, k, last_feature_end(first, next, count))
    IN  /\ document \in documents
        /\ k \in 0..NCalls(plan)
        /\ Record(OpRecord("get_last_feature", document.source.complete,
                           <<first, count>>, next, Ran(plan, k), raised,
                           IF raised = "none" THEN "value" ELSE "none",
                           IF raised = "none"
                           THEN FeatureName(last_feature_node(first, next, count))
                           ELSE <<>>))
        /\ UNCHANGED <<modvars, appvars, vaultvars>>

\* freeze: show the freeze bar, get the last feature, move the bar past it.
freeze_plan(document, first, next, count) ==
    <<Log("INFO", "freezing document")>> \o
    (IF sw_client = NONE THEN <<>>
     ELSE <<Call("SetUserPreferenceToggle", <<>>, <<>>, 461)>> \o
          last_feature_steps(first, next, count) \o
          (IF last_feature_end(first, next, count) = "none"
           THEN <<Call("Name", <<>>, <<>>, 0),
                  Call("EditFreeze",
                       FeatureName(last_feature_node(first, next, count)), <<>>, 3)>>
           ELSE <<>>))

Freeze(document, first, next, count, k) ==
    LET plan == freeze_plan(document, first, next, count)
        atEnd == IF sw_client = NONE THEN "AttributeError"
                 ELSE last_feature_end(first, next, count)
    IN  /\ document \in documents
        /\ k \in 0..NCalls(plan)
        /\ Record(OpRecord("freeze", document.source.complete, <<first, count>>, next,
                           Ran(plan, k), Raised(plan, k, atEnd), "none", <<>>))
        /\ UNCHANGED <<modvars, appvars, vaultvars>>

----------------------------------------------------------------------------
(* Inputs *)

VaultRoot == <<"C:", SEP, "My-Vault">>

PartLocation     == VaultRoot \o <<SEP, "Test_Part_02", DOT, "S", "L", "D", "P", "R", "T">>
AssemblyLocation == VaultRoot \o <<SEP, "Bracket", DOT, "S", "L", "D", "A", "S", "M">>
DrawingLocation  == VaultRoot \o <<SEP, "Sheet", DOT, "v2", DOT, "S", "L", "D", "D", "R", "W">>
MixedLocation    == VaultRoot \o <<SEP, "Mount", DOT, "S", "l", "d", "A", "s", "m">>
LowerLocation    == VaultRoot \o <<SEP, "cover", DOT, "s", "l", "d", "p", "r", "t">>
TextLocation     == VaultRoot \o <<SEP, "notes", DOT, "t", "x", "t">>

Locations == {PartLocation, AssemblyLocation, DrawingLocation, MixedLocation,
              LowerLocation, TextLocation}

Filepaths == {Filepath(l) : l \in Locations}

CustomDestination == <<"D:", SEP, "out">>

Destinations == {<<>>, CustomDestination}

\* The feature trees the application may report have at most MaxFeatures
\* nodes, linked in any way (in a chain, in a cycle, or not at all), and any
\* reported feature count up to one more.
MaxFeatures == 2

\* The releases and the vaults the sessions are constructed for.
Versions == {2019, 2021, 2022, 2023, 2024}

VaultNames == {<<"My-Vault">>, <<"Goddard_Vault">>, <<"My_Vault">>}

FeatureNodes == 1..MaxFeatures

FeatureLinks == [FeatureNodes -> 0..MaxFeatures]

FeatureCounts == 0..(MaxFeatures + 1)

----------------------------------------------------------------------------
(* The vault: files, lock states, the workflow *)

VaultFiles == {Filepath(PartLocation), Filepath(AssemblyLocation)}
VaultPaths == {f.complete : f \in VaultFiles}

LockStates == {"Unlocked", "Me", "Other"}

\* The transitions the vault enumerates for a workflow state, in its order.
\* Two transitions of one state may carry the same name.
Transitions(state) ==
    CASE state = "WIP" ->
            <<[Name |-> "Submit", ToState |-> "Review"],
              [Name |-> "Release", ToState |-> "Released"]>>
      [] state = "Review" ->
            <<[Name |-> "Reject", ToState |-> "WIP"],
              [Name |-> "Release", ToState |-> "Released"],
              [Name |-> "Reject", ToState |-> "Released"]>>
      [] state = "Released" ->
            <<[Name |-> "Revise", ToState |-> "WIP"]>>
      [] OTHER -> <<>>

WorkflowStates == {"WIP", "Review", "Released"}

TransitionNames == {"Submit", "Release", "Reject", "Revise"}

\* Optional[str]: <<>> is None, <<s>> is the string s.
Comments == {<<>>, << <<>> >>, << <<"ECO-12">> >>}

CurrentRevision(filepath) == IF filepath.complete = PartLocation THEN <<"B">> ELSE <<"A">>

UserName(owner) == IF owner = "Me" THEN <<"me">> ELSE <<"other">>

\* The lists of configuration names the vault may report for a file.
ReportedNames ==
    { <<>>, <<"@">>, <<"Default">>, <<"@", "Default">>, <<"Default", "@">>,
      <<"Default", "Long">>, <<"@", "@">>, <<"@", "Default", "@">> }

----------------------------------------------------------------------------
(* solidwrap.py: class Vault *)

VaultName == <<"My-Vault">>

\* Vault(name): __init__ sets the name and authorized = UNAUTHORIZED, and runs
\* only for the instance the wrapper makes.
NewVault(name) ==
    LET returned == singleton(vault_instance,
                              [id |-> NextId(vault_instance), name |-> name])
    IN  /\ vault_instance' = returned
        /\ authorized' = IF vault_instance = <<>> THEN "UNAUTHORIZED" ELSE authorized
        /\ Record([OpRecord("Vault", <<>>, name, <<>>, <<>>, "none", "value", returned)
                        EXCEPT !.pre = vault_instance])
        /\ UNCHANGED <<export_matrix, sw_instance, appvars, vault_client, logged_in,
                       locked, wfstate>>

authorize_plan_resubmit ==
    <<Log("INFO", "authenticating PDM credentials..."),
      Call("LoginAuto", vault_instance[1].name, <<>>, 0),
      Log("INFO", "credentials successfully authenticated")>>

authorize_plan ==
    <<Log("INFO", "authenticating PDM credentials...")>> \o
    (IF logged_in
     THEN <<Log("INFO", "credentials successfully authenticated")>>
     ELSE <<Call("LoginAuto", vault_instance[1].name, <<>>, 0),
            Log("INFO", "credentials successfully authenticated")>>)

authorize_caught ==
    <<Log("ERROR", "failed authenticate login credentials"), Log("ERROR", "exception")>>

\* authorize(): accepted is whether a LoginAuto that returns leaves the vault
\* logged in.
Authorize(k, accepted) ==
    LET plan == IF vault_client = NONE
                THEN <<Log("INFO", "authenticating PDM credentials...")>>
                ELSE authorize_plan
        atEnd == IF vault_client = NONE THEN "AttributeError" ELSE "none"
    IN  /\ k \in 0..NCalls(plan)
        /\ authorized' = IF k = 0 /\ atEnd = "none" THEN "AUTHORIZED" ELSE authorized
        /\ logged_in' = IF Returned(plan, k, "LoginAuto") THEN accepted ELSE logged_in
        /\ Record([OpRecord("authorize", <<>>, <<>>, <<>>,
                            Ran(plan, k) \o (IF k > 0 THEN authorize_caught ELSE <<>>),
                            atEnd,
                            IF atEnd = "none" THEN "value" ELSE "none",
                            IF atEnd # "none" THEN <<>> ELSE <<PyBool(k = 0)>>)
                        EXCEPT !.pre = <<vault_client, PyBool(logged_in)>>])
        /\ UNCHANGED <<modvars, appvars, vault_client, locked, wfstate>>

vault_connect_plan(dispatched) ==
    <<Log("CRITICAL", "connecting to PDM Vault"),
      Log("INFO", "establishing connection..."),
      Call("CoInitialize", <<>>, <<>>, 0),
      Call("Dispatch", VAULT_DISPATCH_KEY, <<>>, 0)>> \o
    (IF dispatched
     THEN <<Log("INFO", "connected successfully established")>> \o authorize_plan
     ELSE <<>>)

VaultConnect(dispatched, k, accepted) ==
    LET plan == vault_connect_plan(dispatched)
        caught == CASE k = 0 -> <<>>
                    [] k \in {1, 2} -> <<Log("ERROR", "failed to establish connection"),
                                         Log("ERROR", "exception")>>
                    [] OTHER -> authorize_caught
        ret == IF k > 0 THEN <<"False">> ELSE IF dispatched THEN <<"True">> ELSE <<NONE>>
    IN  /\ k \in 0..NCalls(plan)
        /\ vault_client' = IF dispatched /\ Returned(plan, k, "Dispatch")
                           THEN "com" ELSE vault_client
        /\ authorized' = IF dispatched /\ k = 0 THEN "AUTHORIZED" ELSE authorized
        /\ logged_in' = IF Returned(plan, k, "LoginAuto") THEN accepted ELSE logged_in
        /\ Record([OpRecord("vault.connect", <<>>, <<>>, <<>>, Ran(plan, k) \o caught,
                            "none", "value", ret)
                        EXCEPT !.pre = <<vault_client, PyBool(logged_in)>>])
        /\ UNCHANGED <<modvars, appvars, locked, wfstate>>

vault_disconnect_plan ==
    <<Log("CRITICAL", "disconnecting from PDM Vault"),
      Call("CoUninitialize", <<>>, <<>>, 0),
      Log("INFO", "connection successfully terminated")>>

VaultDisconnect_authorized(k) ==
    LET plan == vault_disconnect_plan
    IN  /\ k \in 0..NCalls(plan)
        /\ vault_client' = IF k = 0 THEN NONE ELSE vault_client
        /\ Record([OpRecord("vault.disconnect", <<>>, <<>>, <<>>, Ran(plan, k),
                            "none", "value", <<PyBool(k = 0)>>)
                        EXCEPT !.pre = <<vault_client, authorized>>])
        /\ UNCHANGED <<modvars, appvars, authorized, logged_in, locked, wfstate>>

VaultDisconnect(k) ==
    LET plan == vault_disconnect_plan
        caught == IF k = 0 THEN <<>>
                  ELSE <<Log("ERROR", "failed to disconnect from PDM Vault client"),
                         Log("ERROR", "exception")>>
    IN  /\ k \in 0..NCalls(plan)
        /\ vault_client' = IF k = 0 THEN NONE ELSE vault_client
        /\ authorized' = IF k = 0 THEN "UNAUTHORIZED" ELSE authorized
        /\ Record([OpRecord("vault.disconnect", <<>>, <<>>, <<>>, Ran(plan, k) \o caught,
                            "none", "value", IF k = 0 THEN <<"True">> ELSE <<"False">>)
                        EXCEPT !.pre = <<vault_client, authorized>>])
        /\ UNCHANGED <<modvars, appvars, logged_in, locked, wfstate>>

\* directory = Vault.client.GetFolderFromPath(...); file = directory.GetFile(...)
\* With no client the first of them is an AttributeError.
lookup_steps(filepath) ==
    IF vault_client = NONE THEN <<>>
    ELSE <<Call("GetFolderFromPath", filepath.directory, <<>>, 0),
           Call("GetFile", filepath.name, <<>>, 0)>>

NoClient == IF vault_client = NONE THEN "AttributeError" ELSE "none"

\* The record of a vault operation on a file.
FileRecord(op, filepath, arg, comment, plan, k, rkind, ret) ==
    [OpRecord(op, filepath.complete, arg, <<>>, Ran(plan, k), Raised(plan, k, NoClient),
              IF Raised(plan, k, NoClient) = "none" THEN rkind ELSE "none",
              IF Raised(plan, k, NoClient) = "none" THEN ret ELSE <<>>)
        EXCEPT !.comment = comment,
               !.pre = <<locked[filepath.complete], wfstate[filepath.complete]>>]

\* A file the vault holds locked, by anyone.
IsLocked(filepath) == locked[filepath.complete] # "Unlocked"

checkout_plan_unguarded(filepath) ==
    <<Log("INFO", "checking out file")>> \o lookup_steps(filepath) \o
    (IF vault_client = NONE THEN <<>>
     ELSE <<Call("LockFile", <<>>, filepath.directory, 0)>>)

checkout_plan(filepath) ==
    <<Log("INFO", "checking out file")>> \o lookup_steps(filepath) \o
    (IF vault_client = NONE THEN <<>>
     ELSE IF IsLocked(filepath)
          THEN <<Log("INFO", "file is already checked out")>>
          ELSE <<Call("LockFile", <<>>, filepath.directory, 0)>>)

Checkout(filepath, k) ==
    LET plan == checkout_plan(filepath)
        pre  == locked[filepath.complete]
        post == IF Returned(plan, k, "LockFile") THEN "Me" ELSE pre
    IN  /\ k \in 0..NCalls(plan)
        /\ locked' = [locked EXCEPT ![filepath.complete] = post]
        /\ RecordLock(FileRecord("checkout", filepath, <<>>, <<>>, plan, k, "none", <<>>),
                      pre, post)
        /\ UNCHANGED <<modvars, appvars, vault_client, authorized, logged_in,
                       wfstate>>

checkin_message_replaced(comment) ==
    IF comment = <<>> \/ comment[1] = <<>> THEN AUTOMATION_MESSAGE ELSE comment[1]

\* message = AUTOMATION_MESSAGE, and "if comment: message + ': ' + comment"
checkin_message(comment) ==
    IF comment = <<>> \/ comment[1] = <<>> THEN AUTOMATION_MESSAGE
    ELSE AUTOMATION_MESSAGE \o <<": ">> \o comment[1]

checkin_plan_unguarded(filepath, comment) ==
    <<Log("INFO", "checking in file")>> \o lookup_steps(filepath) \o
    (IF vault_client = NONE THEN <<>>
     ELSE <<Call("UnlockFile", checkin_message(comment), <<>>, 0)>>)

checkin_plan(filepath, comment) ==
    <<Log("INFO", "checking in file")>> \o lookup_steps(filepath) \o
    (IF vault_client = NONE THEN <<>>
     ELSE IF ~IsLocked(filepath)
          THEN <<Log("INFO", "file is already checked in")>>
          ELSE <<Call("UnlockFile", checkin_message(comment), <<>>, 0)>>)

\* The vault refuses to unlock, or to undo the lock of, another user's file.
Refused(plan, k, api, pre) ==
    pre = "Other" /\ (\E i \in 1..Len(plan) : IsCall(plan[i]) /\ plan[i].api = api)
        => k > 0

Checkin(filepath, comment, k) ==
    LET plan == checkin_plan(filepath, comment)
        pre  == locked[filepath.complete]
        post == IF Returned(plan, k, "UnlockFile") THEN "Unlocked" ELSE pre
    IN  /\ k \in 0..NCalls(plan)
        /\ Refused(plan, k, "UnlockFile", pre)
        /\ locked' = [locked EXCEPT ![filepath.complete] = post]
        /\ RecordLock(FileRecord("checkin", filepath, <<>>, comment, plan, k, "none", <<>>),
                      pre, post)
        /\ UNCHANGED <<modvars, appvars, vault_client, authorized, logged_in,
                       wfstate>>

undo_checkout_plan_unguarded(filepath) ==
    <<Log("INFO", "undoing check out")>> \o lookup_steps(filepath) \o
    (IF vault_client = NONE THEN <<>>
     ELSE <<Call("UndoLockFile", <<>>, <<>>, 0)>>)

undo_checkout_plan(filepath) ==
    <<Log("INFO", "undoing check out")>> \o lookup_steps(filepath) \o
    (IF vault_client = NONE THEN <<>>
     ELSE IF ~IsLocked(filepath)
          THEN <<Log("INFO", "file is not checked out")>>
          ELSE <<Call("UndoLockFile", <<>>, <<>>, 0)>>)

UndoCheckout(filepath, k) ==
    LET plan == undo_checkout_plan(filepath)
        pre  == locked[filepath.complete]
        post == IF Returned(plan, k, "UndoLockFile") THEN "Unlocked" ELSE pre
    IN  /\ k \in 0..NCalls(plan)
        /\ Refused(plan, k, "UndoLockFile", pre)
        /\ locked' = [locked EXCEPT ![filepath.complete] = post]
        /\ RecordLock(FileRecord("undo_checkout", filepath, <<>>, <<>>, plan, k,
                                 "none", <<>>),
                      pre, post)
        /\ UNCHANGED <<modvars, appvars, vault_client, authorized, logged_in,
                       wfstate>>

\* position = current.GetFirstTransitionPosition(), then the loop "while not
\* position.IsNull": its n calls of GetNextTransition are one step.
enumerate_steps(n) ==
    <<Call("GetFirstTransitionPosition", <<>>, <<>>, 0)>> \o
    (IF n = 0 THEN <<>> ELSE <<Call("GetNextTransition", <<>>, <<>>, n)>>)

\* The transitions change_state matches by name, in enumeration order.
Matches(transitions, transition) ==
    SelectSeq(transitions, LAMBDA test : test.Name = transition)

next_state_first(transitions, transition) == transitions[1].ToState

\* next_state after the loop "for test in transitions": the last match.
next_state(transitions, transition) ==
    LET found == Matches(transitions, transition)
    IN  found[Len(found)].ToState

change_state_comment(comment) ==
    IF comment = <<>> THEN AUTOMATION_MESSAGE ELSE comment[1]

change_state_plan(filepath, transition, comment) ==
    IF vault_client = NONE THEN <<>>
    ELSE LET transitions == Transitions(wfstate[filepath.complete])
             found == Matches(transitions, transition)
         IN  lookup_steps(filepath) \o enumerate_steps(Len(transitions)) \o
             [i \in 1..Len(found) |-> Log("INFO", "transitioning file to state")] \o
             (IF found = <<>>
              THEN <<Log("WARNING", "failed to execute transition")>>
              ELSE <<Call("ChangeState",
                          <<next_state(transitions, transition)>>,
                          change_state_comment(comment), 0)>>)

ChangeState(filepath, transition, comment, k) ==
    LET plan == change_state_plan(filepath, transition, comment)
    IN  /\ k \in 0..NCalls(plan)
        /\ wfstate' = IF Returned(plan, k, "ChangeState")
                      THEN [wfstate EXCEPT ![filepath.complete] =
                              next_state(Transitions(wfstate[filepath.complete]),
                                         transition)]
                      ELSE wfstate
        /\ Record(FileRecord("change_state", filepath, <<transition>>, comment, plan, k,
                             "none", <<>>))
        /\ UNCHANGED <<modvars, appvars, vault_client, authorized, logged_in,
                       locked>>

\* A read: what it returns when no call raises.
Read_locking(op, filepath, arg, plan, k, rkind, ret) ==
    /\ k \in 0..NCalls(plan)
    /\ Record(FileRecord(op, filepath, arg, <<>>, plan, k, rkind, ret))
    /\ locked' = [locked EXCEPT ![filepath.complete] =
                        IF @ = "Unlocked" /\ k = 0 THEN "Me" ELSE @]
    /\ UNCHANGED <<modvars, appvars, vault_client, authorized, logged_in, wfstate>>

Read(op, filepath, arg, plan, k, rkind, ret) ==
    /\ k \in 0..NCalls(plan)
    /\ Record(FileRecord(op, filepath, arg, <<>>, plan, k, rkind, ret))
    /\ UNCHANGED <<modvars, appvars, vaultvars>>

GetRevision(filepath, k) ==
    Read("get_revision", filepath, <<>>,
         <<Log("DEBUG", "release revision")>> \o lookup_steps(filepath), k,
         "value", CurrentRevision(filepath))

\* file.CurrentState.Name
get_state(filepath) == <<wfstate[filepath.complete]>>

GetState(filepath, k) ==
    Read("get_state", filepath, <<>>, lookup_steps(filepath), k,
         "value", get_state(filepath))

\* transitions.append(transition.Name) for every transition enumerated
transition_names(transitions) ==
    [i \in 1..Len(transitions) |-> transitions[i].Name]

get_transitions(filepath) == transition_names(Transitions(wfstate[filepath.complete]))

GetTransitions(filepath, k) ==
    Read("get_transitions", filepath, <<>>,
         IF vault_client = NONE THEN <<>>
         ELSE lookup_steps(filepath) \o
              enumerate_steps(Len(Transitions(wfstate[filepath.complete]))),
         k, "list", get_transitions(filepath))

GetCheckoutUser(filepath, k) ==
    Read("get_checkout_user", filepath, <<>>, lookup_steps(filepath), k, "value",
         IF IsLocked(filepath) THEN UserName(locked[filepath.complete]) ELSE <<NONE>>)

\* list.remove(x): drops the first x.
ListRemove(results, x) ==
    LET i == FirstIndexOf(results, x)
    IN  SubSeq(results, 1, i - 1) \o SubSeq(results, i + 1, Len(results))

\* "if '@' in results: results.remove('@')"
get_configurations(reported) ==
    IF "@" \in Range(reported) THEN ListRemove(reported, "@") ELSE reported

\* get_configurations(filepath): reported is what the vault enumerates.
get_configurations_plan(filepath, reported) ==
    IF vault_client = NONE THEN <<>>
    ELSE lookup_steps(filepath) \o
         <<Call("GetConfigurations", <<>>, <<>>, 0),
           Call("GetHeadPosition", <<>>, <<>>, 0)>> \o
         \* the loop "while not position.IsNull": its calls of GetNext are one step
         (IF reported = <<>> THEN <<>>
          ELSE <<Call("GetNext", <<>>, <<>>, Len(reported))>>)

GetConfigurations(filepath, reported, k) ==
    Read("get_configurations", filepath, reported,
         get_configurations_plan(filepath, reported), k,
         "list", get_configurations(reported))

----------------------------------------------------------------------------
(* tests.py: export_example and main *)

\* What a routine has called: the operation, what it was called on (a session
\* or a file) and whether it succeeded (returned True, or returned normally).
Event(op, on, ok) == [op |-> op, on |-> on, ok |-> ok]

TestPart(directory, name) ==
    Filepath(directory \o <<SEP, name, DOT, "S", "L", "D", "P", "R", "T">>)

\* files of export_example: fr"C:\{vault.name}\Test_Part_0N.SLDPRT"
MainFiles ==
    <<TestPart(<<"C:", SEP>> \o VaultName, "Test_Part_01"),
      TestPart(<<"C:", SEP>> \o VaultName, "Test_Part_02"),
      TestPart(<<"C:", SEP>> \o VaultName, "Test_Part_03")>>

\* An exception leaves main; otherwise the routine goes on at next.
Proceed(rec, next) == IF rec.raised = "none" THEN next ELSE <<"main.raised", 0>>

\* solidworks = SolidWorks(2023)
MainNewSolidWorks ==
    /\ pc = <<"main.SolidWorks", 0>>
    /\ NewSolidWorks(2023)
    /\ pc' = <<"main.Vault", 0>>
    /\ UNCHANGED trace

\* vault = Vault('My-Vault')
MainNewVault ==
    /\ pc = <<"main.Vault", 0>>
    /\ NewVault(<<"My-Vault">>)
    /\ pc' = <<"main.connect", 0>>
    /\ UNCHANGED trace

\* if not solidworks.connect(headless=False): return None
MainConnect ==
    /\ pc = <<"main.connect", 0>>
    /\ \E dispatched \in BOOLEAN, k \in 0..5 : Connect(FALSE, dispatched, k)
    /\ trace' = Append(trace, Event("connect", "solidworks", last'.ret = <<"True">>))
    /\ pc' = IF last'.ret = <<"True">> THEN <<"main.vault.connect", 0>>
             ELSE <<"main.returned", 0>>

\* if not vault.connect(): return None
MainVaultConnect ==
    /\ pc = <<"main.vault.connect", 0>>
    /\ \E dispatched \in BOOLEAN, k \in 0..3, accepted \in BOOLEAN :
            VaultConnect(dispatched, k, accepted)
    /\ trace' = Append(trace, Event("connect", "vault", last'.ret = <<"True">>))
    /\ pc' = IF last'.ret = <<"True">> THEN <<"export.open", 1>>
             ELSE <<"main.returned", 0>>

\* for file in files: if (document := solidworks.open(file)):
MainOpen ==
    \E i \in 1..Len(MainFiles) :
        /\ pc = <<"export.open", i>>
        /\ \E result \in {"raise", "null", "doc"} : Open(MainFiles[i], result)
        /\ pc' = Proceed(last', <<"export.image", i>>)
        /\ UNCHANGED trace

\* solidworks.export(document, SWExportFormat.IMAGE)
MainExportImage ==
    \E i \in 1..Len(MainFiles) :
        /\ pc = <<"export.image", i>>
        /\ \E k \in 0..6 : Export(SWDocument(MainFiles[i].complete), "IMAGE", <<>>, k)
        /\ pc' = Proceed(last', <<"export.parasolid", i>>)
        /\ UNCHANGED trace

\* solidworks.export(document, SWExportFormat.PARASOLID)
MainExportParasolid ==
    \E i \in 1..Len(MainFiles) :
        /\ pc = <<"export.parasolid", i>>
        /\ \E k \in 0..6 : Export(SWDocument(MainFiles[i].complete), "PARASOLID", <<>>, k)
        /\ pc' = Proceed(last', <<"export.close", i>>)
        /\ UNCHANGED trace

\* solidworks.close(document), and on to the next file
MainClose ==
    \E i \in 1..Len(MainFiles) :
        /\ pc = <<"export.close", i>>
        /\ \E k \in 0..1 : Close(SWDocument(MainFiles[i].complete), k)
        /\ pc' = Proceed(last', IF i < Len(MainFiles) THEN <<"export.open", i + 1>>
                                ELSE <<"main.disconnect", 0>>)
        /\ UNCHANGED trace

\* solidworks.disconnect(silent=False)
MainDisconnect ==
    /\ pc = <<"main.disconnect", 0>>
    /\ \E k \in 0..2 : Disconnect(FALSE, k)
    /\ trace' = Append(trace, Event("disconnect", "solidworks", last'.ret = <<"True">>))
    /\ pc' = <<"main.vault.disconnect", 0>>

\* vault.disconnect(), the last statement of main
MainVaultDisconnect ==
    /\ pc = <<"main.vault.disconnect", 0>>
    /\ \E k \in 0..1 : VaultDisconnect(k)
    /\ trace' = Append(trace, Event("disconnect", "vault", last'.ret = <<"True">>))
    /\ pc' = <<"main.returned", 0>>

----------------------------------------------------------------------------
(* test.py: execute, the clean-up of the feature trees *)

ScriptsRoot == <<"C:", SEP, "Goddard_Vault", SEP, "Users", SEP, "SYeatts", SEP, "Scripts">>

ExecuteFiles ==
    <<TestPart(ScriptsRoot, "Test_Part_01"), TestPart(ScriptsRoot, "Test_Part_02"),
      TestPart(ScriptsRoot, "Test_Part_03")>>

ExecutePaths == {ExecuteFiles[i].complete : i \in 1..Len(ExecuteFiles)}

\* The Feature Tree of an example part: its nodes in one chain.
ChainLinks == [n \in FeatureNodes |-> IF n < MaxFeatures THEN n + 1 ELSE 0]

execute_next_checkin_open(label, i) ==
    CASE label = "execute.checkout" ->
            IF i < Len(ExecuteFiles) THEN <<"execute.checkout", i + 1>>
            ELSE <<"execute.open", 1>>
      [] label = "execute.open" -> <<"execute.freeze", i>>
      [] label = "execute.freeze" -> <<"execute.checkin", i>>
      [] label = "execute.checkin" -> <<"execute.safeclose", i>>
      [] label = "execute.safeclose" ->
            IF i < Len(ExecuteFiles) THEN <<"execute.open", i + 1>>
            ELSE <<"execute.returned", 0>>

\* The statement execute goes on with after the call at label for file i
\* returned: batch_checkout(files), then open, freeze, safeclose per file, then
\* batch_checkin(files).
execute_next(label, i) ==
    CASE label = "execute.checkout" ->
            IF i < Len(ExecuteFiles) THEN <<"execute.checkout", i + 1>>
            ELSE <<"execute.open", 1>>
      [] label = "execute.open" -> <<"execute.freeze", i>>
      [] label = "execute.freeze" -> <<"execute.safeclose", i>>
      [] label = "execute.safeclose" ->
            IF i < Len(ExecuteFiles) THEN <<"execute.open", i + 1>>
            ELSE <<"execute.checkin", 1>>
      [] label = "execute.checkin" ->
            IF i < Len(ExecuteFiles) THEN <<"execute.checkin", i + 1>>
            ELSE <<"execute.returned", 0>>

\* An exception leaves execute.
ExecuteProceed(rec, label, i) ==
    IF rec.raised = "none" THEN execute_next(label, i) ELSE <<"execute.raised", 0>>

\* The call rec of execute on file i, noted in trace.
ExecuteStep(label, i, op) ==
    /\ trace' = Append(trace, Event(op, ExecuteFiles[i].complete, last'.raised = "none"))
    /\ pc' = ExecuteProceed(last', label, i)

\* vault.batch_checkout(files): for file in files: self.checkout(filepath=file)
ExecuteCheckout ==
    \E i \in 1..Len(ExecuteFiles) :
        /\ pc = <<"execute.checkout", i>>
        /\ \E k \in 0..3 : Checkout(ExecuteFiles[i], k)
        /\ ExecuteStep("execute.checkout", i, "checkout")

\* if model := solidworks.open(filepath=file):
ExecuteOpen ==
    \E i \in 1..Len(ExecuteFiles) :
        /\ pc = <<"execute.open", i>>
        /\ \E result \in {"raise", "null", "doc"} : Open(ExecuteFiles[i], result)
        /\ ExecuteStep("execute.open", i, "open")

\* solidworks.freeze(model)
ExecuteFreeze ==
    \E i \in 1..Len(ExecuteFiles) :
        /\ pc = <<"execute.freeze", i>>
        /\ \E count \in {0, MaxFeatures}, k \in 0..8 :
                Freeze(SWDocument(ExecuteFiles[i].complete), 1, ChainLinks, count, k)
        /\ ExecuteStep("execute.freeze", i, "freeze")

\* solidworks.safeclose(model=model)
ExecuteSafeClose ==
    \E i \in 1..Len(ExecuteFiles) :
        /\ pc = <<"execute.safeclose", i>>
        /\ \E k \in 0..3 : SafeClose(SWDocument(ExecuteFiles[i].complete), k)
        /\ ExecuteStep("execute.safeclose", i, "close")

\* vault.batch_checkin(files): for file in files: self.checkin(filepath=file)
ExecuteCheckin ==
    \E i \in 1..Len(ExecuteFiles) :
        /\ pc = <<"execute.checkin", i>>
        /\ \E k \in 0..3 : Checkin(ExecuteFiles[i], <<>>, k)
        /\ ExecuteStep("execute.checkin", i, "checkin")

----------------------------------------------------------------------------
(* Specifications *)

\* solidworks = SolidWorks(2023); vault = Vault('My-Vault')
Singletons ==
    /\ sw_instance = <<[id |-> 1, version |-> SWVersion]>>
    /\ vault_instance = <<[id |-> 1, name |-> VaultName]>>

\* No example routine is running.
NoRoutine == pc = <<"idle", 0>> /\ trace = <<>>

\* Before any construction: no instance is stored.
Unconstructed(recorded, start) ==
    /\ export_matrix = ExportMatrix
    /\ sw_client = NONE
    /\ documents = {}
    /\ folders = {}
    /\ vault_client = NONE
    /\ authorized = "UNAUTHORIZED"
    /\ logged_in = FALSE
    /\ locked = [p \in VaultPaths |-> "Unlocked"]
    /\ wfstate = [p \in VaultPaths |-> "WIP"]
    /\ last = NoOp
    /\ hist = <<>>
    /\ observe = recorded
    /\ sw_instance = <<>> /\ vault_instance = <<>>
    /\ pc = start /\ trace = <<>>

\* Both sessions as constructed; the vault holds its files in the lock states
\* locks, and recorded tells what the operations record.
Constructed(recorded, locks) ==
    /\ export_matrix = ExportMatrix
    /\ sw_client = NONE
    /\ documents = {}
    /\ folders = {}
    /\ vault_client = NONE
    /\ authorized = "UNAUTHORIZED"
    /\ logged_in = FALSE
    /\ locked \in [VaultPaths -> locks]
    /\ wfstate = [p \in VaultPaths |-> "WIP"]
    /\ last = NoOp
    /\ hist = <<>>
    /\ observe = recorded
    /\ Singletons /\ NoRoutine

\* The same with the vault session connected and authorized.
Connected(recorded, locks) ==
    /\ export_matrix = ExportMatrix
    /\ sw_client = NONE
    /\ documents = {}
    /\ folders = {}
    /\ vault_client = "com"
    /\ authorized = "AUTHORIZED"
    /\ logged_in = TRUE
    /\ locked \in [VaultPaths -> locks]
    /\ wfstate = [p \in VaultPaths |-> "WIP"]
    /\ last = NoOp
    /\ hist = <<>>
    /\ observe = recorded
    /\ Singletons /\ NoRoutine

\* The vault session connected and authorized, the files in any lock state
\* and any workflow state.
Populated(recorded) ==
    /\ export_matrix = ExportMatrix
    /\ sw_client = NONE
    /\ documents = {}
    /\ folders = {}
    /\ vault_client = "com"
    /\ authorized = "AUTHORIZED"
    /\ logged_in = TRUE
    /\ locked \in [VaultPaths -> LockStates]
    /\ wfstate \in [VaultPaths -> WorkflowStates]
    /\ last = NoOp
    /\ hist = <<>>
    /\ observe = recorded
    /\ Singletons /\ NoRoutine

Init == Constructed("off", {"Unlocked"})

InitApp == Constructed("last", {"Unlocked"})

InitFlow == Connected("last", {"Unlocked"})

InitRead == Populated("last")

InitClose == Constructed("last", {"Unlocked"})

InitSession == Constructed("last", {"Unlocked"})

InitCheckin == Connected("last", {"Unlocked", "Other"})

InitFreeze == Constructed("last", {"Unlocked"})

InitConstruct == Unconstructed("last", <<"idle", 0>>)

\* execute is called after the two connects, whose results its caller does not
\* use to stop: each session is connected or was left without a client.  The
\* files of the example are in the vault, not checked out or checked out by
\* another user.
InitExecute ==
    /\ export_matrix = ExportMatrix
    /\ sw_client \in {"com", NONE}
    /\ documents = {}
    /\ folders = {}
    /\ \/ vault_client = "com" /\ authorized = "AUTHORIZED" /\ logged_in = TRUE
       \/ vault_client = NONE /\ authorized = "UNAUTHORIZED" /\ logged_in = FALSE
    /\ locked \in [ExecutePaths -> {"Unlocked", "Other"}]
    /\ wfstate = [p \in ExecutePaths |-> "WIP"]
    /\ last = NoOp
    /\ hist = <<>>
    /\ observe = "last"
    /\ Singletons
    /\ pc = <<"execute.checkout", 1>> /\ trace = <<>>

InitMain == Unconstructed("last", <<"main.SolidWorks", 0>>)

InitLock == Connected("hist", {"Unlocked", "Other"})

\* The values of an input that no state but the record of the call depends on:
\* when calls are not recorded one value stands for all of them.
Recorded(values, one) == IF observe = "off" THEN {one} ELSE values

SWConnect    == \E headless \in BOOLEAN, dispatched \in BOOLEAN, k \in 0..5 :
                    Connect(headless, dispatched, k)
                    /\ UNCHANGED routinevars
SWDisconnect == \E silent \in BOOLEAN, k \in 0..2 : Disconnect(silent, k)
                    /\ UNCHANGED routinevars
SWOpen       == \E filepath \in Filepaths, result \in {"raise", "null", "doc"} :
                    Open(filepath, result)
                    /\ UNCHANGED routinevars
SWClose      == \E document \in documents, k \in 0..1 : Close(document, k)
                    /\ UNCHANGED routinevars
SWSave       == \E document \in documents, k \in 0..1 : Save(document, k)
                    /\ UNCHANGED routinevars
SWRebuild    == \E document \in documents, top_only \in BOOLEAN, k \in 0..1 :
                    Rebuild(document, top_only, k)
                    /\ UNCHANGED routinevars
SWSafeClose  == \E document \in documents, k \in 0..3 : SafeClose(document, k)
                    /\ UNCHANGED routinevars
SWStage      == \E document \in documents, k \in 0..4 : Stage(document, k)
                    /\ UNCHANGED routinevars
SWExport     == \E document \in documents, as_type \in SWExportFormatMembers,
                   destination \in Destinations, k \in 0..6 :
                    Export(document, as_type, destination, k)
                    /\ UNCHANGED routinevars
SWGetLastFeature ==
    \E document \in documents, first \in 0..MaxFeatures, next \in FeatureLinks,
       count \in FeatureCounts, k \in 0..5 :
        GetLastFeature(document, first, next, count, k)
                    /\ UNCHANGED routinevars
SWFreeze     ==
    \E document \in documents, first \in 0..MaxFeatures, next \in FeatureLinks,
       count \in FeatureCounts, k \in 0..8 :
        Freeze(document, first, next, count, k)
                    /\ UNCHANGED routinevars

SWNew        == \E version \in Versions : NewSolidWorks(version)
                    /\ UNCHANGED routinevars
VNew         == \E name \in VaultNames : NewVault(name)
                    /\ UNCHANGED routinevars

\* open of the part of the example
SWOpenPart   == \E result \in {"raise", "null", "doc"} : Open(Filepath(PartLocation), result)
                    /\ UNCHANGED routinevars
VConnect     == \E dispatched \in BOOLEAN, k \in 0..3, accepted \in BOOLEAN :
                    VaultConnect(dispatched, k, accepted)
                    /\ UNCHANGED routinevars
VDisconnect  == \E k \in 0..1 : VaultDisconnect(k)
                    /\ UNCHANGED routinevars
VAuthorize   == \E k \in 0..1, accepted \in BOOLEAN : Authorize(k, accepted)
                    /\ UNCHANGED routinevars
VCheckout    == \E filepath \in VaultFiles, k \in 0..3 : Checkout(filepath, k)
                    /\ UNCHANGED routinevars
VCheckin     == \E filepath \in VaultFiles, comment \in Recorded(Comments, <<>>), k \in 0..3 :
                    Checkin(filepath, comment, k)
                    /\ UNCHANGED routinevars
VUndo        == \E filepath \in VaultFiles, k \in 0..3 : UndoCheckout(filepath, k)
                    /\ UNCHANGED routinevars
VChangeState == \E filepath \in VaultFiles, transition \in TransitionNames,
                   comment \in Recorded(Comments, <<>>), k \in 0..5 :
                    ChangeState(filepath, transition, comment, k)
                    /\ UNCHANGED routinevars
VGetRevision == \E filepath \in VaultFiles, k \in Recorded(0..2, 0) : GetRevision(filepath, k)
                    /\ UNCHANGED routinevars
VGetState    == \E filepath \in VaultFiles, k \in Recorded(0..2, 0) : GetState(filepath, k)
                    /\ UNCHANGED routinevars
VGetTransitions == \E filepath \in VaultFiles, k \in Recorded(0..4, 0) : GetTransitions(filepath, k)
                    /\ UNCHANGED routinevars
VGetCheckoutUser == \E filepath \in VaultFiles, k \in Recorded(0..2, 0) : GetCheckoutUser(filepath, k)
                    /\ UNCHANGED routinevars
VGetConfigurations ==
    \E filepath \in VaultFiles, reported \in Recorded(ReportedNames, <<>>),
       k \in Recorded(0..5, 0) :
        GetConfigurations(filepath, reported, k)
                    /\ UNCHANGED routinevars

\* checkin(filepath), the comment left to its default
LCheckin     == \E filepath \in VaultFiles, k \in 0..3 : Checkin(filepath, <<>>, k)
                    /\ UNCHANGED routinevars

NextApp == SWConnect \/ SWDisconnect \/ SWOpen \/ SWClose \/ SWStage \/ SWExport

NextLock == VCheckout \/ LCheckin \/ VUndo

NextFlow == VChangeState \/ VGetState \/ VGetTransitions

NextRead ==
    VGetConfigurations \/ VGetRevision \/ VGetCheckoutUser \/ VGetState \/ VGetTransitions

NextClose ==
    SWConnect \/ SWDisconnect \/ SWOpen \/ SWClose \/ SWSave \/ SWRebuild \/ SWSafeClose

NextSession == SWConnect \/ SWDisconnect \/ VConnect \/ VDisconnect \/ VAuthorize

NextCheckin == VCheckout \/ VCheckin

NextConstruct == SWNew \/ VNew

NextMain ==
    \/ MainNewSolidWorks \/ MainNewVault \/ MainConnect \/ MainVaultConnect
    \/ MainOpen \/ MainExportImage \/ MainExportParasolid \/ MainClose
    \/ MainDisconnect \/ MainVaultDisconnect

NextExecute ==
    ExecuteCheckout \/ ExecuteOpen \/ ExecuteFreeze \/ ExecuteSafeClose \/ ExecuteCheckin

NextFreeze == SWConnect \/ SWOpenPart \/ SWGetLastFeature \/ SWFreeze

Next ==
    \/ SWConnect \/ SWDisconnect \/ SWOpen \/ SWClose \/ SWStage \/ SWExport
    \/ SWSave \/ SWRebuild \/ SWSafeClose
    \/ VConnect \/ VDisconnect \/ VAuthorize
    \/ VCheckout \/ VCheckin \/ VUndo \/ VChangeState
    \/ VGetRevision \/ VGetState \/ VGetTransitions \/ VGetCheckoutUser
    \/ VGetConfigurations

\* Both sessions, nothing recorded.
Spec == Init /\ [][Next]_vars

\* The application session, each operation recorded in last.
SpecApp == InitApp /\ [][NextApp]_vars

\* The lock operations of a connected vault session, with their history.
SpecLock == InitLock /\ [][NextLock]_vars

\* The workflow operations of a connected vault session, recorded in last.
SpecFlow == InitFlow /\ [][NextFlow]_vars

\* The read operations of a connected vault session, recorded in last.
SpecRead == InitRead /\ [][NextRead]_vars

\* Opening, saving, rebuilding and closing documents, recorded in last.
SpecClose == InitClose /\ [][NextClose]_vars

\* Connecting and disconnecting the two sessions, recorded in last.
SpecSession == InitSession /\ [][NextSession]_vars

\* Check-out and check-in with any comment, recorded in last.
SpecCheckin == InitCheckin /\ [][NextCheckin]_vars

\* Constructions of the two session classes, recorded in last.
SpecConstruct == InitConstruct /\ [][NextConstruct]_vars

\* One run of main of the example, each call recorded in last.
SpecMain == InitMain /\ [][NextMain]_vars

\* One run of the clean-up of execute, each call recorded in last.
SpecExecute == InitExecute /\ [][NextExecute]_vars

\* The Feature Tree operations on an open part, recorded in last.
SpecFreeze == InitFreeze /\ [][NextFreeze]_vars

----------------------------------------------------------------------------
(* Properties *)

Normal(rec) == rec.raised = "none"

\* An external call raised.
ExternalFailure(rec) == rec.raised \in {"com_error", "OSError"}

DocTypes == {"PART", "ASSEMBLY", "DRAWING"}

\* The format is in the table's entry for the document type.
InTable(doctype, format) ==
    doctype \in DOMAIN export_matrix /\ format \in Range(export_matrix[doctype])

\* The extension of a path, without its period, in upper case.
UpperExtension(path) == Upper(RemoveAll(Filepath(path).extension, DOT))

\* C1: export issues the save-as call only for a (document type, format) pair of
\* the table; for a pair not in the table it fails with an
\* IncompatibleFormatError and issues no save-as call; for a pair in the table
\* (no external call failing) it issues the save-as call exactly once.  Stated
\* for handles whose document type is Part, Assembly or Drawing.
C1_ExportOnlyCompatible ==
    last.op = "export" /\ SWDocument(last.file).doctype \in DocTypes =>
        LET doctype == SWDocument(last.file).doctype
            saves   == CallsTo(last, "SaveAs2")
        IN  /\ saves # <<>> => InTable(doctype, last.arg[1])
            /\ ~InTable(doctype, last.arg[1]) => saves = <<>>
            /\ ~InTable(doctype, last.arg[1]) /\ ~ExternalFailure(last)
                    => last.raised = "IncompatibleFormatError"
            /\ InTable(doctype, last.arg[1]) /\ ~ExternalFailure(last)
                    => Len(saves) = 1

C2_Table ==
    /\ DOMAIN export_matrix = DocTypes
    /\ \A t \in DocTypes : Range(export_matrix[t]) # {}
    /\ Range(export_matrix["DRAWING"]) = {"DXF", "PDF"}
    /\ Range(export_matrix["PART"]) = {"IMAGE", "PARASOLID", "STEP", "STL"}
    /\ Range(export_matrix["ASSEMBLY"]) = {"IMAGE", "PARASOLID", "STEP", "STL"}

\* C2: in every reachable state the export compatibility table is total over
\* Part, Assembly, Drawing with no empty entry, Drawing maps to {DXF, PDF}, Part
\* and Assembly to {Image, Parasolid, Step, STL}, and no operation of either
\* session changes the table.
C2_TableFixed == [](C2_Table) /\ [][export_matrix' = export_matrix]_vars

\* Operations of both sessions have acted: a document is open, a folder was
\* made, a file is checked out and another state was reached.
C2_Witness ==
    /\ C2_Table
    /\ sw_client # NONE /\ documents # {} /\ folders # {}
    /\ vault_client # NONE /\ authorized = "AUTHORIZED"
    /\ \E p \in VaultPaths : locked[p] = "Me"
    /\ \E p \in VaultPaths : wfstate[p] # "WIP"

\* C3: open of a location whose extension is none of SLDPRT, SLDASM, SLDDRW
\* fails with an UnsupportedTypeError, issues no external open call and creates
\* no handle, so every handle has a document type that is Part, Assembly or
\* Drawing.
C3_UnsupportedRejected ==
    /\ last.op = "open" /\ sw_client # NONE
       /\ (\A t \in DocTypes : UpperExtension(last.file) # SWDocTypeValue(t))
            => /\ last.raised = "UnsupportedTypeError"
               /\ CallsTo(last, "OpenDoc6") = <<>>
               /\ last.rkind # "doc"
    /\ \A d \in documents : d.doctype \in DocTypes

TypeCode(t) == CASE t = "PART" -> 1 [] t = "ASSEMBLY" -> 2 [] t = "DRAWING" -> 3

\* C4: for an extension that equals SLDPRT, SLDASM or SLDDRW up to letter case,
\* the type code passed to the external open call and the document type stored
\* on the resulting handle both denote that type.
C4_ClassificationConsistent ==
    last.op = "open" /\ last.rkind = "doc" =>
        \A t \in DocTypes :
            UpperExtension(last.file) = SWDocTypeValue(t) =>
                /\ \A i \in 1..Len(Calls(last)) :
                        Calls(last)[i].api = "OpenDoc6" => Calls(last)[i].n = TypeCode(t)
                /\ last.ret = <<t>>

\* Two checkouts in a row of one location, the first returning normally: the
\* first issues the lock request exactly when it finds the file unlocked, and
\* the file is then locked; the second issues no lock request, raises no
\* exception of its own, leaves lock state and owner as they were and reports,
\* at the given level, that the file is already checked out.  So does a
\* checkout of a file another user holds.
CheckoutTwice(level) ==
    \A i \in 1..(Len(hist) - 1) :
        LET a == hist[i]
            b == hist[i + 1]
            reported == <<Log(level, "file is already checked out")>>
        IN  a.op = "checkout" /\ b.op = "checkout" /\ a.file = b.file /\ Normal(a) =>
                /\ a.pre = "Unlocked" =>
                        /\ Len(a.requests) = 1 /\ a.requests[1].api = "LockFile"
                        /\ a.post = "Me"
                /\ a.pre # "Unlocked" =>
                        /\ a.requests = <<>> /\ a.post = a.pre
                        /\ a.notes = reported
                /\ b.pre = a.post /\ b.post = b.pre
                /\ b.requests = <<>>
                /\ b.raised \in {"none", "com_error"}
                /\ Normal(b) => b.notes = reported

CheckinTwice(level) ==
    Len(hist) = 3 =>
        LET a == hist[1]
            b == hist[2]
            c == hist[3]
        IN  /\ a.op = "checkout" /\ b.op = "checkin" /\ c.op = "checkin"
            /\ a.file = b.file /\ b.file = c.file
            /\ a.pre = "Unlocked" /\ Normal(a) /\ Normal(b)
            =>  /\ Len(b.requests) = 1 /\ b.requests[1].api = "UnlockFile"
                /\ b.pre = "Me" /\ b.post = "Unlocked"
                /\ c.requests = <<>>
                /\ c.raised \in {"none", "com_error"}
                /\ Normal(c) => c.notes = <<Log(level, "file is already checked in")>>
                /\ c.pre = "Unlocked" /\ c.post = "Unlocked"

NamesFrom(state) == {Transitions(state)[i].Name : i \in 1..Len(Transitions(state))}

\* C7: change_state with a transition name that names no transition of the
\* file's current state fails with an InvalidTransitionError reported to the
\* caller, submits no state change and leaves the workflow state unchanged.
C7_InvalidTransitionRejected ==
    last.op = "change_state" /\ last.arg[1] \notin NamesFrom(last.pre[2])
    /\ ~ExternalFailure(last)
        =>  /\ last.raised = "InvalidTransitionError"
            /\ CallsTo(last, "ChangeState") = <<>>
            /\ wfstate[last.file] = last.pre[2]

\* C8: change_state(location, t) submits a state change if and only if t is
\* among the names get_transitions returns for the file's state (no external
\* call failing before); it then submits exactly one, whose target is the
\* ToState of a transition named t and whose comment is the caller's if given
\* and the automation message otherwise, and once it has returned get_state
\* gives the name of that target.
C8_ChangeStateSubmits ==
    last.op = "change_state" =>
        LET t         == last.arg[1]
            offered   == Transitions(last.pre[2])
            submitted == CallsTo(last, "ChangeState")
        IN  /\ submitted # <<>> => t \in Range(transition_names(offered))
            /\ Normal(last) => (submitted # <<>> <=> t \in Range(transition_names(offered)))
            /\ Len(submitted) <= 1
            /\ submitted # <<>> =>
                /\ \E i \in 1..Len(offered) :
                        offered[i].Name = t /\ submitted[1].s1 = <<offered[i].ToState>>
                /\ submitted[1].s2 = IF last.comment = <<>>
                                     THEN <<"automated action using SolidWrap">>
                                     ELSE last.comment[1]
                /\ Normal(last) => get_state(Filepath(last.file)) = submitted[1].s1

C8_Witness ==
    /\ last.op = "change_state" /\ last.arg = <<"Release">> /\ Normal(last)
    /\ last.pre[2] = "WIP"
    /\ last.comment = << <<"ECO-12">> >>
    /\ Len(CallsTo(last, "ChangeState")) = 1
    /\ wfstate[last.file] = "Released"

\* C9: the result of get_configurations contains no "@" and is otherwise the
\* reported sequence, the other entries in their order, also when "@" is
\* reported more than once.
C9_NoSentinel ==
    last.op = "get_configurations" /\ Normal(last) =>
        /\ "@" \notin Range(last.ret)
        /\ last.ret = SelectSeq(last.arg, LAMBDA x : x # "@")

\* The extension the claim gives for each format.
C10_Extension(format) ==
    CASE format = "IMAGE" -> "png" [] format = "PARASOLID" -> "x_t"
      [] format = "STEP" -> "step" [] format = "STL" -> "stl"
      [] format = "DXF" -> "dxf" [] format = "PDF" -> "pdf"

\* The source file name without its extension.
C10_Root(path) ==
    CASE path = PartLocation -> <<"Test_Part_02">>
      [] path = AssemblyLocation -> <<"Bracket">>
      [] path = DrawingLocation -> <<"Sheet", ".", "v2">>

C10_DestinationOf(destination) ==
    IF destination = <<>>
    THEN <<"C:", "\\", "Users", "\\", "me", "\\", "Desktop", "\\", "SolidWrap Exports">>
    ELSE destination

\* C10: for a compatible document and format and any destination, the path
\* export computes and passes to the external save-as call is
\* <destination>\<root>.<format extension>.
C10_OutputPath ==
    last.op = "export" /\ InTable(SWDocument(last.file).doctype, last.arg[1]) =>
        /\ ~ExternalFailure(last) => Len(CallsTo(last, "SaveAs2")) = 1
        /\ \A i \in 1..Len(CallsTo(last, "SaveAs2")) :
                CallsTo(last, "SaveAs2")[i].s1 =
                    C10_DestinationOf(last.arg2) \o <<"\\">> \o C10_Root(last.file)
                    \o <<".", C10_Extension(last.arg[1])>>

C10_Witness ==
    /\ last.op = "export" /\ last.file = PartLocation /\ last.arg = <<"STEP">>
    /\ last.arg2 = CustomDestination /\ Normal(last)
    /\ CallsTo(last, "SaveAs2") =
          <<Call("SaveAs2", <<"D:", "\\", "out", "\\", "Test_Part_02", ".", "step">>,
                 <<>>, 0)>>

\* The apis of the external calls of an operation, in the order issued.
Apis(rec) == [i \in 1..Len(Calls(rec)) |-> Calls(rec)[i].api]

\* C11: safeclose issues its external calls on the document in the order
\* rebuild (topOnly false), save, close, none of them twice and none before
\* the one before it has returned; when none fails it issues all three.
C11_SafeCloseOrder ==
    last.op = "safeclose" =>
        LET calls == Calls(last)
            order == <<"ForceRebuild3", "Save3", "CloseDoc">>
        IN  /\ Len(calls) <= 3
            /\ Apis(last) = SubSeq(order, 1, Len(calls))
            /\ Len(calls) >= 1 => calls[1].n = 0
            /\ Len(calls) = 3 => calls[3].s1 = last.file
            /\ Normal(last) => Len(calls) = 3

C11_Witness ==
    /\ last.op = "safeclose" /\ Normal(last)
    /\ Apis(last) = <<"ForceRebuild3", "Save3", "CloseDoc">>
    /\ \A d \in documents : d.swobj # last.file

\* C12: when rebuild or save raises during safeclose, the close call is still
\* attempted or the failure reaches the caller of safeclose; safeclose never
\* returns normally while the document is still open.
C12_SafeCloseSurfaces ==
    last.op = "safeclose" =>
        /\ CallsTo(last, "CloseDoc") # <<>> \/ last.raised # "none"
        /\ Normal(last) => \A d \in documents : d.swobj # last.file

\* save raised: close was not attempted, the caller got the error and the
\* document is still open.
C12_Witness ==
    /\ last.op = "safeclose" /\ last.raised = "com_error"
    /\ Apis(last) = <<"ForceRebuild3", "Save3">>
    /\ \E d \in documents : d.swobj = last.file

\* C13: connect of the application session, called while a connection handle
\* is held, returns success, issues no dispatch and leaves the handle as it is.
C13_ConnectIdempotent ==
    last.op = "connect" /\ last.pre = <<"com">> =>
        /\ last.ret = <<"True">>
        /\ CallsTo(last, "Dispatch") = <<>>
        /\ sw_client = "com"

\* C14: connect of either session returns True or False, never None, and raises
\* nothing; it returns True only with a handle held (and, for the vault, the
\* session authorized), it returns True when it established the handle (and
\* authorized), and a call that returns False leaves the client handle as it
\* was before.
C14_ConnectReturns ==
    last.op \in {"connect", "vault.connect"} =>
        LET client == IF last.op = "connect" THEN sw_client ELSE vault_client
            authorization == last.op = "vault.connect" => authorized = "AUTHORIZED"
        IN  /\ last.ret \in {<<"True">>, <<"False">>}
            /\ last.raised = "none"
            /\ last.ret = <<"True">> => client # NONE /\ authorization
            /\ last.pre[1] = NONE /\ client # NONE /\ authorization
                    => last.ret = <<"True">>
            /\ last.ret = <<"False">> => client = last.pre[1]

\* C15: after disconnect returns True the application session holds no
\* connection handle, and the kill of the application process by name is
\* issued exactly when silent is False.
C15_Disconnect ==
    last.op = "disconnect" =>
        /\ last.ret = <<"True">> => sw_client = NONE
        /\ CallsTo(last, "subprocess.call") # <<>> <=> last.arg = <<"False">>
        /\ Len(CallsTo(last, "subprocess.call")) <= 1
        /\ \A i \in 1..Len(CallsTo(last, "subprocess.call")) :
                CallsTo(last, "subprocess.call")[i].s1 = <<"Taskkill /IM SLDWORKS.exe /F">>

C15_Witness ==
    /\ last.op = "disconnect" /\ last.pre = <<"com">> /\ last.arg = <<"False">>
    /\ last.ret = <<"True">>
    /\ Len(CallsTo(last, "subprocess.call")) = 1
    /\ sw_client = NONE

\* disconnect(silent=True) returned True: no kill was issued.
C15_WitnessSilent ==
    /\ last.op = "disconnect" /\ last.pre = <<"com">> /\ last.arg = <<"True">>
    /\ last.ret = <<"True">>
    /\ CallsTo(last, "subprocess.call") = <<>>
    /\ sw_client = NONE

\* C16: authorize, and the authorize that connect of the vault session ends
\* with, called while the vault client reports being logged in, submits no
\* login request, and authorize then returns True with the session authorized;
\* so a login request is submitted only while the vault is not logged in.
C16_AuthorizeIdempotent ==
    /\ last.op \in {"authorize", "vault.connect"} /\ last.pre[2] = "True"
            => CallsTo(last, "LoginAuto") = <<>>
    /\ last.op = "authorize" /\ last.pre = <<"com", "True">>
            => /\ last.ret = <<"True">>
               /\ Calls(last) = <<>>
               /\ authorized = "AUTHORIZED"

C16_Witness ==
    /\ last.op = "authorize" /\ last.pre = <<"com", "True">>
    /\ last.ret = <<"True">> /\ CallsTo(last, "LoginAuto") = <<>>
    /\ logged_in /\ authorized = "AUTHORIZED"

\* C17: the comment of every unlock request checkin submits is the automation
\* message alone when the caller gave no comment (None or the empty string),
\* and the automation message, then ": ", then the caller's comment otherwise.
C17_CheckinComment ==
    last.op = "checkin" =>
        \A i \in 1..Len(CallsTo(last, "UnlockFile")) :
            CallsTo(last, "UnlockFile")[i].s1 =
                IF last.comment = <<>> \/ last.comment = << <<>> >>
                THEN <<"automated action using SolidWrap">>
                ELSE <<"automated action using SolidWrap", ": ">> \o last.comment[1]

C17_Witness ==
    /\ last.op = "checkin" /\ last.comment = << <<"ECO-12">> >> /\ Normal(last)
    /\ last.pre[1] = "Me"
    /\ CallsTo(last, "UnlockFile") =
          <<Call("UnlockFile", <<"automated action using SolidWrap", ": ", "ECO-12">>,
                 <<>>, 0)>>
    /\ locked[last.file] = "Unlocked"

\* undo_checkout never issues a lock or an unlock request and leaves the
\* workflow state as it was.  On a file that is not locked it issues no
\* undo-lock request, raises no exception of its own, leaves the lock state
\* as it was and reports, at the given level, that the file is not checked
\* out.  On a locked file it issues one undo-lock request once the file was
\* found.
UndoCheckoutOnce(level) ==
    last.op = "undo_checkout" =>
        /\ CallsTo(last, "UnlockFile") = <<>> /\ CallsTo(last, "LockFile") = <<>>
        /\ wfstate[last.file] = last.pre[2]
        /\ last.pre[1] = "Unlocked" =>
                /\ CallsTo(last, "UndoLockFile") = <<>>
                /\ last.raised \in {"none", "com_error"}
                /\ locked[last.file] = "Unlocked"
                /\ Normal(last) =>
                        SelectSeq(Logs(last), LAMBDA s : s.s1 = <<"file is not checked out">>)
                            = <<Log(level, "file is not checked out")>>
        /\ last.pre[1] # "Unlocked" =>
                /\ Len(CallsTo(last, "UndoLockFile")) <= 1
                /\ CallsTo(last, "UndoLockFile") = <<>> => last.raised = "com_error"
                /\ Normal(last) => locked[last.file] = "Unlocked"

ReadOps == {"get_revision", "get_state", "get_transitions", "get_checkout_user",
            "get_configurations"}

C19_ReadRecord ==
    last.op \in ReadOps =>
        /\ \A i \in 1..Len(Calls(last)) :
                Calls(last)[i].api \notin {"LockFile", "UnlockFile", "UndoLockFile",
                                           "ChangeState"}
        /\ last.raised \in {"none", "com_error"}
        /\ Normal(last) => last.rkind \in {"value", "list"}
        /\ last.op = "get_checkout_user" /\ Normal(last) =>
                /\ last.pre[1] = "Unlocked" => last.ret = <<"None">>
                /\ last.pre[1] = "Me" => last.ret = <<"me">>
                /\ last.pre[1] = "Other" => last.ret = <<"other">>

\* C19: get_revision, get_state, get_transitions, get_checkout_user and
\* get_configurations, on a file in any lock state, return a result without a
\* lock, unlock, undo-lock or state-change request and leave the files' lock
\* state, owner and workflow state and both sessions unchanged;
\* get_checkout_user returns the owner's name when the file is locked and None
\* when it is not.
C19_PureReads ==
    /\ [](C19_ReadRecord)
    /\ [][last'.op \in ReadOps => UNCHANGED <<export_matrix, appvars, vaultvars>>]_vars

C19_Witness ==
    /\ last.op = "get_checkout_user" /\ Normal(last)
    /\ last.pre[1] = "Other" /\ last.ret = <<"other">>
    /\ locked[last.file] = "Other"

WrappedOps == {"open", "save", "rebuild", "close", "export", "checkout", "checkin",
               "undo_checkout", "change_state"} \cup ReadOps

Warned(rec) == \E i \in 1..Len(Logs(rec)) : Logs(rec)[i].api = "WARNING"

\* C20: none of open, save, rebuild, close, export, checkout, checkin,
\* undo_checkout, change_state and the reads catches a failure (none logs an
\* error and goes on), and an operation that returned normally has logged a
\* warning only if it is checkout, checkin or undo_checkout finding the file
\* already in the lock state asked for.
C20_OnlyLockWarnings ==
    last.op \in WrappedOps =>
        /\ \A i \in 1..Len(Logs(last)) : Logs(last)[i].api # "ERROR"
        /\ Normal(last) /\ Warned(last) =>
                /\ last.op \in {"checkout", "checkin", "undo_checkout"}
                /\ Calls(last) = SelectSeq(Calls(last), LAMBDA s :
                        s.api \notin {"LockFile", "UnlockFile", "UndoLockFile"})

\* C21: close issues no rebuild call and no save call; its only external call
\* is the close call for the handle's location, issued at most once, and
\* exactly once while the session holds a client.
C21_CloseOnly ==
    last.op = "close" =>
        /\ CallsTo(last, "ForceRebuild3") = <<>> /\ CallsTo(last, "Save3") = <<>>
        /\ Calls(last) = CallsTo(last, "CloseDoc")
        /\ Len(CallsTo(last, "CloseDoc")) <= 1
        /\ \A i \in 1..Len(CallsTo(last, "CloseDoc")) :
                CallsTo(last, "CloseDoc")[i].s1 = last.file
        /\ sw_client # NONE => Len(CallsTo(last, "CloseDoc")) = 1

C21_Witness ==
    /\ last.op = "close" /\ Normal(last) /\ last.file = PartLocation
    /\ Calls(last) = <<Call("CloseDoc", PartLocation, <<>>, 0)>>
    /\ \A d \in documents : d.swobj # last.file

\* The four viewport calls of stage, in its order, and the save-as call.
ViewportCalls == <<"SetUserPreferenceToggle", "ShowNamedView2", "ViewZoomtofit2",
                   "InsertScene">>

\* The viewport calls and the save-as calls of an operation, in the order issued.
StagingOf(rec) ==
    SelectSeq(Apis(rec), LAMBDA a : a \in Range(ViewportCalls) \cup {"SaveAs2"})

\* C22: stage and export of a Drawing handle issue none of the four viewport
\* calls; export of a Part or Assembly handle in a format of the table issues
\* the four in the order hide-all-types, isometric view, zoom-to-fit, scene,
\* each once, the save-as call only after all four, and all of them when no
\* external call fails.
C22_StagingOrder ==
    last.op \in {"stage", "export"} =>
        LET doctype == SWDocument(last.file).doctype
        IN  /\ doctype = "DRAWING" =>
                    \A i \in 1..Len(StagingOf(last)) : StagingOf(last)[i] = "SaveAs2"
            /\ last.op = "export" /\ doctype \in {"PART", "ASSEMBLY"}
               /\ InTable(doctype, last.arg[1]) =>
                    /\ Len(StagingOf(last)) <= 5
                    /\ StagingOf(last) =
                            SubSeq(ViewportCalls \o <<"SaveAs2">>, 1, Len(StagingOf(last)))
                    /\ ~ExternalFailure(last) => Len(StagingOf(last)) = 5

C22_Witness ==
    /\ last.op = "export" /\ last.file = AssemblyLocation /\ last.arg = <<"IMAGE">>
    /\ Normal(last)
    /\ StagingOf(last) = ViewportCalls \o <<"SaveAs2">>

\* C27: export of a document in a format that is not in the table's entry for
\* the document's type issues no viewport call and creates no folder.
C27_RejectedBeforeEffects ==
    last.op = "export" /\ SWDocument(last.file).doctype \in DocTypes
    /\ ~InTable(SWDocument(last.file).doctype, last.arg[1]) =>
        /\ \A i \in 1..Len(Apis(last)) : Apis(last)[i] \notin Range(ViewportCalls)
        /\ CallsTo(last, "makedirs") = <<>>

\* C28: once authorize has returned, the session is AUTHORIZED with True
\* returned exactly if the vault reports being logged in.
C28_AuthorizedIffLoggedIn ==
    last.op = "authorize" /\ Normal(last) =>
        (authorized = "AUTHORIZED" /\ last.ret = <<"True">> <=> logged_in)

\* C29: the vault session is AUTHORIZED only while it holds a client; a
\* disconnect that returns True leaves no client and the session UNAUTHORIZED,
\* and one that returns False leaves both as they were.
C29_AuthorizedHasClient ==
    /\ authorized = "AUTHORIZED" => vault_client # NONE
    /\ last.op = "vault.disconnect" =>
        /\ last.ret \in {<<"True">>, <<"False">>}
        /\ last.ret = <<"True">> => vault_client = NONE /\ authorized = "UNAUTHORIZED"
        /\ last.ret = <<"False">> => <<vault_client, authorized>> = last.pre

C29_Witness ==
    /\ last.op = "vault.disconnect" /\ last.ret = <<"True">>
    /\ last.pre = <<"com", "AUTHORIZED">>
    /\ vault_client = NONE /\ authorized = "UNAUTHORIZED"

\* The nodes from node on along the successors, at most fuel of them.
RECURSIVE ChainFrom(_, _, _)
ChainFrom(next, node, fuel) ==
    IF node = 0 \/ fuel = 0 THEN <<>>
    ELSE <<node>> \o ChainFrom(next, next[node], fuel - 1)

\* The list from the first child; it is well formed when it ends (no cycle).
FeatureList(rec) == ChainFrom(rec.arg2, rec.arg[1], MaxFeatures + 1)

WellFormed(rec) == Len(FeatureList(rec)) <= MaxFeatures

\* C23: for a non-empty, well-formed feature list and a reported count of at
\* least its length, get_last_feature returns the feature of the tail node and
\* freeze moves the freeze bar past the name of that feature.
C23_LastFeatureIsTail ==
    last.op \in {"get_last_feature", "freeze"} /\ sw_client # NONE
    /\ WellFormed(last) /\ FeatureList(last) # <<>>
    /\ last.arg[2] >= Len(FeatureList(last)) /\ ~ExternalFailure(last) =>
        LET tail == FeatureList(last)[Len(FeatureList(last))]
        IN  /\ Normal(last)
            /\ last.op = "get_last_feature" => last.ret = FeatureName(tail)
            /\ last.op = "freeze" =>
                    CallsTo(last, "EditFreeze") =
                        <<Call("EditFreeze", FeatureName(tail), <<>>, 3)>>

\* C24: get_last_feature on a tree with a first child, however its nodes are
\* linked, returns after asking at most count nodes for their successor, count
\* being the reported feature count.
C24_BoundedWalk ==
    last.op = "get_last_feature" /\ last.arg[1] # 0 /\ ~ExternalFailure(last) =>
        /\ Len(CallsTo(last, "GetNext")) <= last.arg[2]
        /\ Normal(last)

\* C25: whatever is constructed, at most one instance of SolidWorks and one of
\* Vault exist: each construction returns the instance stored for its class,
\* which is the first one made, and a construction after the first returns it
\* with the version (the vault name) it was first given.
C25_Singleton ==
    /\ \A i \in 1..Len(sw_instance) : sw_instance[i].id = 1
    /\ \A i \in 1..Len(vault_instance) : vault_instance[i].id = 1
    /\ last.op = "SolidWorks" =>
            /\ last.ret = sw_instance /\ Len(last.ret) = 1
            /\ last.pre # <<>> => last.ret = last.pre
            /\ last.pre = <<>> => last.ret[1].version = last.arg[1]
    /\ last.op = "Vault" =>
            /\ last.ret = vault_instance /\ Len(last.ret) = 1
            /\ last.pre # <<>> => last.ret = last.pre
            /\ last.pre = <<>> => last.ret[1].name = last.arg

C25_Witness ==
    /\ last.op = "SolidWorks" /\ last.arg = <<2021>>
    /\ last.pre = <<[id |-> 1, version |-> 2023]>>
    /\ sw_instance = <<[id |-> 1, version |-> 2023]>>
    /\ last.ret = sw_instance
    /\ vault_instance # <<>>

\* C30: when main returns, each session whose connect returned True has been
\* disconnected after that: also the application session when the connect of
\* the vault session failed.
C30_MainDisconnects ==
    pc = <<"main.returned", 0>> =>
        \A i \in 1..Len(trace) :
            trace[i].op = "connect" /\ trace[i].ok =>
                \E j \in (i + 1)..Len(trace) :
                    trace[j].op = "disconnect" /\ trace[j].on = trace[i].on

\* The calls of the routine before its j-th call that opened, and that closed,
\* the file: the file is open in the application when it was opened more often.
OpenedBefore(file, j) ==
    {i \in 1..(j - 1) : trace[i].op = "open" /\ trace[i].on = file /\ trace[i].ok}

ClosedBefore(file, j) ==
    {i \in 1..(j - 1) : trace[i].op = "close" /\ trace[i].on = file /\ trace[i].ok}

OpenAt(file, j) == Cardinality(OpenedBefore(file, j)) > Cardinality(ClosedBefore(file, j))

\* C26: in the clean-up of execute no checkout and no checkin of a file is
\* called while that file is open in the application: a file is opened only
\* after its checkout was called, checked in only after each of its opens was
\* followed by its close, and opened only while no document is open.  The
\* documents the application holds open are those the calls so far left open.
C26_NoLockWhileOpen ==
    /\ \A j \in 1..Len(trace) :
        /\ trace[j].op \in {"checkout", "checkin"} => ~OpenAt(trace[j].on, j)
        /\ trace[j].op = "open" =>
                /\ \E i \in 1..(j - 1) :
                        trace[i].op = "checkout" /\ trace[i].on = trace[j].on
                /\ \A file \in ExecutePaths : ~OpenAt(file, j)
        /\ trace[j].op = "checkin" =>
                \A i \in OpenedBefore(trace[j].on, j) :
                    \E m \in ClosedBefore(trace[j].on, j) : i < m
    /\ documents = {SWDocument(file) : file \in
                        {f \in ExecutePaths : OpenAt(f, Len(trace) + 1)}}

\* The clean-up ran to its end: every file was checked out, opened, closed and
\* checked in.
C26_Witness ==
    /\ pc = <<"execute.returned", 0>>
    /\ \A file \in ExecutePaths :
        \E a, b, c, d \in 1..Len(trace) :
            /\ a < b /\ b < c /\ c < d
            /\ trace[a] = Event("checkout", file, TRUE)
            /\ trace[b] = Event("open", file, TRUE)
            /\ trace[c] = Event("close", file, TRUE)
            /\ trace[d] = Event("checkin", file, TRUE)
    /\ documents = {}
    /\ \E file \in ExecutePaths : locked[file] = "Unlocked"

====
